---- MODULE Spec2Model ----
(***************************************************************************)
(* Seat-inventory reservation and cancellation of the flight booking       *)
(* service: BookingService.book_flight, FlightService.cancel_flight and    *)
(* FlightService.cancel_bookings, each a transaction of several SQL        *)
(* statements against one shared store (Flight, Flight_Instance, Booking,  *)
(* Passenger), and the itinerary searches of FlightService, which          *)
(* cancel_flight runs again after its commit to offer alternatives.        *)
(* Every request opens its own connection, so requests interleave          *)
(* statement by statement.  The store is SQL Server at its default READ    *)
(* COMMITTED level: a statement waits for rows another open transaction    *)
(* has written, and what a transaction wrote becomes visible at its commit *)
(* and is discarded by its rollback.                                       *)
(***************************************************************************)
EXTENDS Integers, FiniteSets, Sequences, TLC

\* ---------------------------------------------------------------- bounds
MaxCalls == 3           \* handler calls made in one run
MaxBookings == 3        \* identity values the Booking table hands out
MaxSeats == 2           \* largest seats_required of a request
MaxPassengers == 2      \* longest passenger_details list of a request
MaxLimit == 3           \* largest limit of a search request

\* ------------------------------------------------------------ catalogue
Procs == {1, 2}                  \* concurrent requests (one connection each)
Flights == {1, 2, 4, 5}          \* rows of the Flight table
RequestFlightIds == {1, 2, 3}    \* flight ids a booking or cancellation request
                                 \* may name (3: no row)
Dates == {1}                     \* calendar dates a request may name
Keys == Flights \X Dates
Ids == 1..MaxBookings

\* City and Airport rows: city X has airports 1 and 2, Y airport 3, Z
\* airport 4.
Cities == {1, 2, 3}
City ==
  [c \in Cities |->
     [city_name |-> IF c = 1 THEN "X" ELSE IF c = 2 THEN "Y" ELSE "Z",
      is_deleted |-> FALSE]]

Airports == {1, 2, 3, 4}
Airport ==
  [a \in Airports |->
     [city_id |-> IF a \in {1, 2} THEN 1 ELSE IF a = 3 THEN 2 ELSE 3,
      is_deleted |-> FALSE]]

\* Flight rows.  1, 2 and 5 fly X to Y (1 and 5 from airport 2, 2 from
\* airport 1) and 4 hops between the two airports of X, so that X to Y has
\* direct flights and the one-stop itineraries (4, 1) and (4, 5); times of
\* day are counted in units of the schedule; 2 and 4 arrive the day after
\* they depart.
Flight ==
  [f \in Flights |->
     [total_seats |-> IF f = 2 THEN 1 ELSE 2,
      base_price |-> IF f \in {1, 5} THEN 10 ELSE IF f = 2 THEN 15 ELSE 20,
      source_airport |-> IF f \in {1, 5} THEN 2 ELSE 1,
      destination_airport |-> IF f = 4 THEN 2 ELSE 3,
      departure_time |-> IF f = 1 THEN 2 ELSE IF f = 5 THEN 0 ELSE 1,
      arrival_time |-> IF f = 1 THEN 3 ELSE IF f = 2 THEN 0 ELSE 2,
      arrival_day_offset |-> IF f \in {2, 4} THEN 1 ELSE 0,
      duration_minutes |-> IF f = 2 THEN 3 ELSE IF f = 5 THEN 2 ELSE 1]]

\* ------------------------------------------------------------------ rows
NoInstance == [present |-> FALSE, available_seats |-> 0, is_deleted |-> FALSE]

NoBooking ==
  [present |-> FALSE, flight_id |-> 0, travel_date |-> 0, status |-> "none",
   total_price |-> 0, passengers |-> 0, booking_date |-> 0]

NoRequest == [op |-> "none", flight_id |-> 0, date |-> 0, seats_required |-> 0,
              passengers |-> 0, ids |-> {}]

NoSearch ==
  [op |-> "none", source_city |-> "", destination_city |-> "", date |-> 0,
   time |-> 0, seats_required |-> 0, limit |-> 0, status |-> 0,
   results |-> <<>>, searched |-> <<>>]

NoLocals == [available_seats |-> 0, created |-> FALSE, booking_id |-> 0,
             booking_ids |-> {}, rowcount |-> 0, before |-> {},
             affected_passengers |-> {}, alternatives |-> <<>>,
             alternatives_sent |-> FALSE, external |-> <<>>]

VARIABLES
  inst,      \* committed Flight_Instance rows, by (flight_id, flight_date)
  booking,   \* committed Booking rows (with their Passenger row count), by id
  nextId,    \* next identity value of Booking.booking_id
  wInst,     \* per request: Flight_Instance rows written and not yet committed
  wBook,     \* per request: Booking rows written and not yet committed
  pc,        \* per request: the statement it executes next
  req,       \* per request: the request body
  loc,       \* per request: local variables of the handler
  outcome,   \* per request: how the handler returned
  calls,     \* handler calls made so far
  flight_is_deleted, \* Flight.is_deleted, by flight_id (set by the catalogue's
                     \* owner, read by the handlers)
  found      \* the last search request and what it returned

vars == <<inst, booking, nextId, wInst, wBook, pc, req, loc, outcome, calls,
          flight_is_deleted, found>>

\* -------------------------------------------------- what a statement sees
Cancelled(status) == status \in {"cancelled_by_user", "cancelled_by_airline"}

NoInstWrites == [k \in Keys |-> NoInstance]
NoBookWrites == [i \in Ids |-> NoBooking]

\* The row a statement of request p reads: its own uncommitted write, else
\* the committed row.
InstRow(p, k) == IF wInst[p][k].present THEN wInst[p][k] ELSE inst[k]
BookRow(p, i) == IF wBook[p][i].present THEN wBook[p][i] ELSE booking[i]

\* Another open transaction holds the row's exclusive lock.
InstLocked(p, k) == \E q \in Procs \ {p} : wInst[q][k].present
BookLocked(p, i) == \E q \in Procs \ {p} : wBook[q][i].present

OnKey(row, f, d) == row.present /\ row.flight_id = f /\ row.travel_date = d

KeyOf(p) == <<req[p].flight_id, req[p].date>>

RECURSIVE SumOver(_, _)
SumOver(S, val) ==
  IF S = {} THEN 0
  ELSE LET x == CHOOSE y \in S : TRUE IN val[x] + SumOver(S \ {x}, val)

\* How a handler returned: the HTTP status, the fixed part of the detail text
\* and the booking ids the detail text lists; for cancel_flight also the
\* affected_bookings and alternatives_sent of its response.
Result(ok, status, detail) ==
  [ok |-> ok, status |-> status, detail |-> detail, ids |-> {},
   affected_bookings |-> 0, alternatives_sent |-> FALSE]
NoResult == Result(FALSE, 0, "none")

\* An uncommitted transaction that leaves its writes in the tables, as a
\* connection in autocommit mode would.
RollbackKeepsWrites(p, status, detail) ==
  /\ inst' = [k \in Keys |-> InstRow(p, k)]
  /\ booking' = [i \in Ids |-> BookRow(p, i)]
  /\ wInst' = [wInst EXCEPT ![p] = NoInstWrites]
  /\ wBook' = [wBook EXCEPT ![p] = NoBookWrites]
  /\ pc' = [pc EXCEPT ![p] = "failed"]
  /\ outcome' = [outcome EXCEPT ![p] = Result(FALSE, status, detail)]
  /\ loc' = [loc EXCEPT ![p] = NoLocals]

\* conn.rollback() in the handler's except clause, then the HTTP error.  An
\* error raised inside "with get_db_connection()" leaves through the
\* connection manager's own except clause, which answers 500 whatever the
\* handler raised.
Rollback(p, status, detail) ==
  /\ wInst' = [wInst EXCEPT ![p] = NoInstWrites]
  /\ wBook' = [wBook EXCEPT ![p] = NoBookWrites]
  /\ pc' = [pc EXCEPT ![p] = "failed"]
  /\ outcome' = [outcome EXCEPT ![p] = Result(FALSE, status, detail)]
  /\ loc' = [loc EXCEPT ![p] = NoLocals]
  /\ UNCHANGED <<inst, booking>>

\* The same, for an error whose detail text lists booking ids.
RollbackListing(p, status, detail, ids) ==
  /\ wInst' = [wInst EXCEPT ![p] = NoInstWrites]
  /\ wBook' = [wBook EXCEPT ![p] = NoBookWrites]
  /\ pc' = [pc EXCEPT ![p] = "failed"]
  /\ outcome' = [outcome EXCEPT ![p] =
                   [Result(FALSE, status, detail) EXCEPT !.ids = ids]]
  /\ loc' = [loc EXCEPT ![p] = NoLocals]
  /\ UNCHANGED <<inst, booking>>

\* conn.commit(): everything the transaction wrote becomes the committed row.
CommitWrites(p) ==
  /\ inst' = [k \in Keys |-> InstRow(p, k)]
  /\ booking' = [i \in Ids |-> BookRow(p, i)]
  /\ wInst' = [wInst EXCEPT ![p] = NoInstWrites]
  /\ wBook' = [wBook EXCEPT ![p] = NoBookWrites]

\* The commit that ends book_flight and cancel_bookings, and their response.
Commit(p) ==
  /\ CommitWrites(p)
  /\ pc' = [pc EXCEPT ![p] = "done"]
  /\ outcome' = [outcome EXCEPT ![p] = Result(TRUE, 200, "ok")]

\* No handler call is running on connection p.
Free(p) == pc[p] \in {"idle", "done", "failed"} /\ calls < MaxCalls

Init ==
  /\ inst = [k \in Keys |-> NoInstance]
  /\ booking = [i \in Ids |-> NoBooking]
  /\ nextId = 1
  /\ wInst = [p \in Procs |-> NoInstWrites]
  /\ wBook = [p \in Procs |-> NoBookWrites]
  /\ pc = [p \in Procs |-> "idle"]
  /\ req = [p \in Procs |-> NoRequest]
  /\ loc = [p \in Procs |-> NoLocals]
  /\ outcome = [p \in Procs |-> NoResult]
  /\ calls = 0
  /\ flight_is_deleted = [f \in Flights |-> FALSE]
  /\ found = NoSearch

\* ------------------------------------------------------- search queries
\* get_airports_by_city_name: the airports, not deleted, of the city of that
\* name, not deleted.
get_airports_by_city_name(city_name) ==
  {a \in Airports : /\ City[Airport[a].city_id].city_name = city_name
                    /\ ~City[Airport[a].city_id].is_deleted
                    /\ ~Airport[a].is_deleted}

\* The Flight_Instance row of (flight_id, flight_date), if any.
InstanceOf(f, d) == IF <<f, d>> \in Keys THEN inst[<<f, d>>] ELSE NoInstance

\* LEFT JOIN Flight_Instance fi ON ... AND fi.is_deleted = 0: fi is NULL
\* unless the row is there and not deleted.
JoinedInstance(f, d) ==
  IF InstanceOf(f, d).present /\ ~InstanceOf(f, d).is_deleted
  THEN InstanceOf(f, d) ELSE NoInstance

\* (fi.available_seats IS NOT NULL AND fi.available_seats >= ?)
\* OR (fi.available_seats IS NULL AND f.total_seats >= ?)
HasSeats(f, d, n) ==
  \/ JoinedInstance(f, d).present /\ JoinedInstance(f, d).available_seats >= n
  \/ ~JoinedInstance(f, d).present /\ Flight[f].total_seats >= n

\* COALESCE(fi.available_seats, f.total_seats)
Coalesce(f, d) ==
  IF JoinedInstance(f, d).present THEN JoinedInstance(f, d).available_seats
  ELSE Flight[f].total_seats

\* A FlightResult: the columns of one leg with its departure and arrival as
\* calendar date and time of day.
FlightResult(f, d, arrival_date) ==
  [flight_id |-> f,
   source_airport |-> Flight[f].source_airport,
   destination_airport |-> Flight[f].destination_airport,
   departure_date |-> d, departure_time |-> Flight[f].departure_time,
   arrival_date |-> arrival_date, arrival_time |-> Flight[f].arrival_time,
   duration_minutes |-> Flight[f].duration_minutes,
   base_price |-> Flight[f].base_price,
   available_seats |-> Coalesce(f, d)]

ConnectingFlightResult(flights, total_duration, total_price) ==
  [total_duration_minutes |-> total_duration, total_price |-> total_price,
   flights |-> flights]

\* Every order of the elements of S.
RECURSIVE Orders(_)
Orders(S) ==
  IF S = {} THEN {<<>>}
  ELSE UNION {{<<x>> \o s : s \in Orders(S \ {x})} : x \in S}

\* The first limit rows (FETCH NEXT ? ROWS ONLY, TOP (?), [:n]).
FirstRows(s, limit) ==
  IF limit <= 0 THEN <<>>
  ELSE IF Len(s) <= limit THEN s ELSE SubSeq(s, 1, limit)

\* The WHERE clause of the direct query without its departure-time condition.
DirectWhereAnyTime(f, source_ids, dest_ids, d, t, n) ==
  /\ Flight[f].source_airport \in source_ids
  /\ Flight[f].destination_airport \in dest_ids
  /\ ~flight_is_deleted[f]
  /\ HasSeats(f, d, n)
  /\ ~(InstanceOf(f, d).present /\ InstanceOf(f, d).is_deleted)

\* The WHERE clause of the direct query.
DirectWhere(f, source_ids, dest_ids, d, t, n) ==
  /\ Flight[f].source_airport \in source_ids
  /\ Flight[f].destination_airport \in dest_ids
  /\ ~flight_is_deleted[f]
  /\ Flight[f].departure_time >= t
  /\ HasSeats(f, d, n)
  /\ ~(InstanceOf(f, d).present /\ InstanceOf(f, d).is_deleted)

\* ORDER BY base_price alone.
DirectOrderByPrice(f, g) == Flight[f].base_price <= Flight[g].base_price

\* ORDER BY f.base_price ASC, f.departure_time ASC
DirectOrderBy(f, g) ==
  \/ Flight[f].base_price < Flight[g].base_price
  \/ /\ Flight[f].base_price = Flight[g].base_price
     /\ Flight[f].departure_time <= Flight[g].departure_time

\* What search_direct_flights can return: the rows of the query in an order
\* the ORDER BY allows (rows that tie come in any order), cut at limit, each
\* built into a one-leg result whose departure and arrival are both
\* datetime.combine(travel_date, ...).
DirectResults(source_ids, dest_ids, d, t, n, limit) ==
  LET rows == {f \in Flights : DirectWhere(f, source_ids, dest_ids, d, t, n)}
      sorted == {s \in Orders(rows) :
                   \A i, j \in 1..Len(s) : i < j => DirectOrderBy(s[i], s[j])}
  IN {[i \in 1..Len(FirstRows(s, limit)) |->
         ConnectingFlightResult(<<FlightResult(s[i], d, d)>>,
                                Flight[s[i]].duration_minutes,
                                Flight[s[i]].base_price)] : s \in sorted}

\* The WHERE clause of search_internal_flight's query.  AND binds tighter
\* than OR: the departure-time condition belongs to the branch without a
\* joined instance row only.  There is no NOT EXISTS on a deleted row.
InternalWhere(f, source_ids, dest_ids, d, t, n) ==
  /\ Flight[f].source_airport \in source_ids
  /\ Flight[f].destination_airport \in dest_ids
  /\ ~flight_is_deleted[f]
  /\ \/ /\ JoinedInstance(f, d).present
        /\ JoinedInstance(f, d).available_seats >= n
     \/ /\ ~JoinedInstance(f, d).present
        /\ Flight[f].total_seats >= n
        /\ Flight[f].departure_time >= t

\* What search_internal_flight can return: [] when the query has no row,
\* else a list of the one row SELECT TOP 1 ... ORDER BY base_price,
\* departure_time gives (any of the rows that tie for first), its departure
\* and arrival both datetime.combine(travel_date, ...).
InternalResults(source_ids, dest_ids, d, t, n) ==
  LET rows == {f \in Flights : InternalWhere(f, source_ids, dest_ids, d, t, n)}
      first == {f \in rows : \A g \in rows : DirectOrderBy(f, g)}
  IN IF rows = {} THEN {<<>>}
     ELSE {<<FlightResult(f, d, d)>> : f \in first}

\* The same conditions without the seat condition on the second leg.
ConnectingWhereFirstLegSeats(f1, f2, source_ids, dest_ids, d, t, n) ==
  /\ Flight[f1].destination_airport = Flight[f2].source_airport
  /\ Flight[f1].source_airport \in source_ids
  /\ Flight[f2].destination_airport \in dest_ids
  /\ ~flight_is_deleted[f1] /\ ~flight_is_deleted[f2]
  /\ Flight[f1].departure_time >= t
  /\ HasSeats(f1, d, n)

\* The same conditions with the second leg's seats read on the date the
\* first leg arrives.
ConnectingWhereOnArrivalDate(f1, f2, source_ids, dest_ids, d, t, n) ==
  /\ Flight[f1].destination_airport = Flight[f2].source_airport
  /\ Flight[f1].source_airport \in source_ids
  /\ Flight[f2].destination_airport \in dest_ids
  /\ ~flight_is_deleted[f1] /\ ~flight_is_deleted[f2]
  /\ Flight[f1].departure_time >= t
  /\ HasSeats(f1, d, n)
  /\ HasSeats(f2, d + Flight[f1].arrival_day_offset, n)

\* The WHERE and join conditions of the connecting query.
ConnectingWhere(f1, f2, source_ids, dest_ids, d, t, n) ==
  /\ Flight[f1].destination_airport = Flight[f2].source_airport
  /\ Flight[f1].source_airport \in source_ids
  /\ Flight[f2].destination_airport \in dest_ids
  /\ ~flight_is_deleted[f1] /\ ~flight_is_deleted[f2]
  /\ Flight[f1].departure_time >= t
  /\ HasSeats(f1, d, n)
  /\ HasSeats(f2, d, n)

ConnectingTotals(pair) ==
  [total_price |-> Flight[pair[1]].base_price + Flight[pair[2]].base_price,
   total_duration |-> Flight[pair[1]].duration_minutes
                        + Flight[pair[2]].duration_minutes]

\* ORDER BY total_price alone.
ConnectingOrderByPrice(a, b) ==
  ConnectingTotals(a).total_price <= ConnectingTotals(b).total_price

\* ORDER BY total_price ASC, total_duration ASC
ConnectingOrderBy(a, b) ==
  \/ ConnectingTotals(a).total_price < ConnectingTotals(b).total_price
  \/ /\ ConnectingTotals(a).total_price = ConnectingTotals(b).total_price
     /\ ConnectingTotals(a).total_duration <= ConnectingTotals(b).total_duration

\* What search_connecting_flights can return; both legs are dated by the
\* query: DATEADD(DAY, arrival_day_offset, ...) for the arrival.
ConnectingResults(source_ids, dest_ids, d, t, n, limit) ==
  LET rows == {pair \in Flights \X Flights :
                 ConnectingWhere(pair[1], pair[2], source_ids, dest_ids,
                                 d, t, n)}
      sorted == {s \in Orders(rows) :
                   \A i, j \in 1..Len(s) :
                      i < j => ConnectingOrderBy(s[i], s[j])}
      leg(f) == FlightResult(f, d, d + Flight[f].arrival_day_offset)
  IN {[i \in 1..Len(FirstRows(s, limit)) |->
         ConnectingFlightResult(<<leg(s[i][1]), leg(s[i][2])>>,
                                ConnectingTotals(s[i]).total_duration,
                                ConnectingTotals(s[i]).total_price)]
        : s \in sorted}

\* A search that ran: the itineraries it returned and the queries it made,
\* each <<kind, travel date>>, in the order it made them.
Ran(results, searched) == [results |-> results, searched |-> searched]

\* The same round with the connecting results put before the direct ones.
DayResultsConnectingFirst(source_ids, dest_ids, d, t, n, limit) ==
  UNION {IF Len(direct) < limit
         THEN {Ran(FirstRows(connecting, limit - Len(direct)) \o direct,
                   <<<<"direct", d>>, <<"connecting", d>>>>) :
                 connecting \in ConnectingResults(source_ids, dest_ids, d, t,
                                                  n, limit)}
         ELSE {Ran(direct, <<<<"direct", d>>>>)}
           : direct \in DirectResults(source_ids, dest_ids, d, t, n, limit)}

\* One round of search_all_flights: the direct results of the day, filled up
\* to limit with connecting ones.
DayResults(source_ids, dest_ids, d, t, n, limit) ==
  UNION {IF Len(direct) < limit
         THEN {Ran(direct \o FirstRows(connecting, limit - Len(direct)),
                   <<<<"direct", d>>, <<"connecting", d>>>>) :
                 connecting \in ConnectingResults(source_ids, dest_ids, d, t,
                                                  n, limit)}
         ELSE {Ran(direct, <<<<"direct", d>>>>)}
           : direct \in DirectResults(source_ids, dest_ids, d, t, n, limit)}

\* The same search going on to the day after whatever the first day gave.
AllResultsBothDays(source_ids, dest_ids, d, t, n, limit) ==
  UNION {{Ran(FirstRows(today.results \o tomorrow.results, limit),
              today.searched \o tomorrow.searched) :
            tomorrow \in DayResults(source_ids, dest_ids, d + 1, t, n, limit)}
           : today \in DayResults(source_ids, dest_ids, d, t, n, limit)}

\* What search_all_flights can return: the day asked for and, while short of
\* limit, the day after.
AllResults(source_ids, dest_ids, d, t, n, limit) ==
  UNION {IF Len(today.results) >= limit
         THEN {Ran(FirstRows(today.results, limit), today.searched)}
         ELSE {Ran(FirstRows(today.results \o tomorrow.results, limit),
                   today.searched \o tomorrow.searched) :
                 tomorrow \in DayResults(source_ids, dest_ids, d + 1, t, n,
                                         limit)}
           : today \in DayResults(source_ids, dest_ids, d, t, n, limit)}

\* ------------------------------------------- BookingService.book_flight
\* The check query, and for a date without an instance row the Flight lookup;
\* for a date with one, the availability check.
BookCheck(p, f, d, n, m) ==
  /\ Free(p)
  /\ calls' = calls + 1
  /\ <<f, d>> \in Keys => ~InstLocked(p, <<f, d>>)
  /\ req' = [req EXCEPT ![p] = [op |-> "book", flight_id |-> f, date |-> d,
                                seats_required |-> n, passengers |-> m,
                                ids |-> {}]]
  /\ UNCHANGED <<nextId, flight_is_deleted, found>>
  /\ LET result == IF <<f, d>> \in Keys THEN inst[<<f, d>>] ELSE NoInstance
     IN IF ~result.present
        THEN IF f \notin Flights \/ flight_is_deleted[f]
             THEN Rollback(p, 500, "Flight not found")
             ELSE /\ pc' = [pc EXCEPT ![p] = "b_instance"]
                  /\ loc' = [loc EXCEPT ![p] = NoLocals]
                  /\ outcome' = [outcome EXCEPT ![p] = NoResult]
                  /\ UNCHANGED <<inst, booking, wInst, wBook>>
        ELSE IF result.available_seats < n
             THEN Rollback(p, 500, "insufficient seats")
             ELSE /\ pc' = [pc EXCEPT ![p] = "b_booking"]
                  /\ loc' = [loc EXCEPT ![p] =
                               [NoLocals EXCEPT !.available_seats =
                                                  result.available_seats]]
                  /\ outcome' = [outcome EXCEPT ![p] = NoResult]
                  /\ UNCHANGED <<inst, booking, wInst, wBook>>

\* INSERT INTO Flight_Instance seeded with total_seats.  Flight_Instance is
\* keyed by (flight_id, flight_date): the insert waits for an uncommitted row
\* of that key and fails on a committed one.
BookInsertInstance(p) ==
  /\ pc[p] = "b_instance"
  /\ ~InstLocked(p, KeyOf(p))
  /\ UNCHANGED <<nextId, req, calls, flight_is_deleted, found>>
  /\ LET total_seats == Flight[req[p].flight_id].total_seats
     IN IF inst[KeyOf(p)].present
        THEN Rollback(p, 500, "duplicate key")
        ELSE /\ wInst' = [wInst EXCEPT ![p][KeyOf(p)] =
                            [present |-> TRUE,
                             available_seats |-> total_seats,
                             is_deleted |-> FALSE]]
             /\ loc' = [loc EXCEPT ![p].available_seats = total_seats,
                                   ![p].created = TRUE]
             /\ pc' = [pc EXCEPT ![p] = "b_available"]
             /\ UNCHANGED <<inst, booking, wBook, outcome>>

\* The same check, answering the shortfall without undoing the insert.
BookAvailabilityKeepsInstance(p) ==
  /\ pc[p] = "b_available"
  /\ UNCHANGED <<nextId, req, calls, flight_is_deleted, found>>
  /\ IF loc[p].available_seats < req[p].seats_required
     THEN RollbackKeepsWrites(p, 500, "insufficient seats")
     ELSE /\ pc' = [pc EXCEPT ![p] = "b_booking"]
          /\ UNCHANGED <<inst, booking, wInst, wBook, loc, outcome>>

\* "if available_seats < request.seats_required" after the insert: the
\* shortfall is raised with the new row written and not yet committed.
BookAvailability(p) ==
  /\ pc[p] = "b_available"
  /\ UNCHANGED <<nextId, req, calls, flight_is_deleted, found>>
  /\ IF loc[p].available_seats < req[p].seats_required
     THEN Rollback(p, 500, "insufficient seats")
     ELSE /\ pc' = [pc EXCEPT ![p] = "b_booking"]
          /\ UNCHANGED <<inst, booking, wInst, wBook, loc, outcome>>

\* INSERT INTO Booking ... 'confirmed', total_price = base_price * seats.
BookInsertBooking(p) ==
  /\ pc[p] = "b_booking"
  /\ nextId <= MaxBookings
  /\ wBook' = [wBook EXCEPT ![p][nextId] =
                 [present |-> TRUE, flight_id |-> req[p].flight_id,
                  travel_date |-> req[p].date, status |-> "confirmed",
                  total_price |-> Flight[req[p].flight_id].base_price
                                    * req[p].seats_required,
                  passengers |-> 0, booking_date |-> 0]]
  /\ loc' = [loc EXCEPT ![p].booking_id = nextId]
  /\ nextId' = nextId + 1
  /\ pc' = [pc EXCEPT ![p] = "b_passengers"]
  /\ UNCHANGED <<inst, booking, wInst, req, outcome, calls, flight_is_deleted,
                 found>>

\* One INSERT INTO Passenger per entry of passenger_details.
BookInsertPassengers(p) ==
  /\ pc[p] = "b_passengers"
  /\ wBook' = [wBook EXCEPT ![p][loc[p].booking_id].passengers =
                 req[p].passengers]
  /\ pc' = [pc EXCEPT ![p] = "b_seats"]
  /\ UNCHANGED <<inst, booking, nextId, wInst, req, loc, outcome,
               calls, flight_is_deleted, found>>

\* The same update debiting one seat per passenger entry.
BookUpdateSeatsPerPassenger(p) ==
  /\ pc[p] = "b_seats"
  /\ ~InstLocked(p, KeyOf(p))
  /\ wInst' = [wInst EXCEPT ![p][KeyOf(p)] =
                 [InstRow(p, KeyOf(p)) EXCEPT
                    !.available_seats = @ - req[p].passengers]]
  /\ pc' = [pc EXCEPT ![p] = "b_commit"]
  /\ UNCHANGED <<inst, booking, nextId, wBook, req, loc, outcome,
               calls, flight_is_deleted, found>>

\* UPDATE Flight_Instance SET available_seats = available_seats - ?
BookUpdateSeats(p) ==
  /\ pc[p] = "b_seats"
  /\ ~InstLocked(p, KeyOf(p))
  /\ wInst' = [wInst EXCEPT ![p][KeyOf(p)] =
                 [InstRow(p, KeyOf(p)) EXCEPT
                    !.available_seats = @ - req[p].seats_required]]
  /\ pc' = [pc EXCEPT ![p] = "b_commit"]
  /\ UNCHANGED <<inst, booking, nextId, wBook, req, loc, outcome,
               calls, flight_is_deleted, found>>

BookCommit(p) ==
  /\ pc[p] = "b_commit"
  /\ Commit(p)
  /\ UNCHANGED <<nextId, req, loc, calls, flight_is_deleted, found>>

\* ------------------------------------------- FlightService.cancel_flight
\* Step 1: the flight occurrence, Flight_Instance joined to a Flight row with
\* is_deleted = 0 (the instance's own is_deleted is not looked at).
CancelFlightDetails(p, f, d) ==
  /\ Free(p)
  /\ calls' = calls + 1
  /\ <<f, d>> \in Keys => ~InstLocked(p, <<f, d>>)
  /\ req' = [req EXCEPT ![p] = [op |-> "cancel_flight", flight_id |-> f,
                                date |-> d, seats_required |-> 0,
                                passengers |-> 0, ids |-> {}]]
  /\ UNCHANGED <<nextId, flight_is_deleted, found>>
  /\ IF <<f, d>> \in Keys /\ inst[<<f, d>>].present /\ ~flight_is_deleted[f]
     THEN /\ pc' = [pc EXCEPT ![p] = "f_affected"]
          /\ loc' = [loc EXCEPT ![p] =
                       [NoLocals EXCEPT !.before =
                          {i \in Ids : /\ OnKey(booking[i], f, d)
                                       /\ booking[i].status = "confirmed"}]]
          /\ outcome' = [outcome EXCEPT ![p] = NoResult]
          /\ UNCHANGED <<inst, booking, wInst, wBook>>
     ELSE Rollback(p, 500, "Flight not found or already deleted")

\* The same selection without its flight_id condition.
AffectedBookingsOfDate(p) ==
  {i \in Ids : /\ BookRow(p, i).present
               /\ BookRow(p, i).travel_date = req[p].date
               /\ BookRow(p, i).status # "cancelled"}

\* The bookings a statement of cancel_flight selects:
\* WHERE flight_id = ? AND travel_date = ? AND status != 'cancelled'.
AffectedBookings(p) ==
  {i \in Ids : /\ OnKey(BookRow(p, i), req[p].flight_id, req[p].date)
               /\ BookRow(p, i).status # "cancelled"}

\* A scan of the bookings of the occurrence waits for those another open
\* transaction has written.
BookingsOfKeyLocked(p) ==
  \E q \in Procs \ {p}, i \in Ids :
     OnKey(wBook[q][i], req[p].flight_id, req[p].date)

\* Step 2: the affected bookings and their passengers.
CancelFlightAffected(p) ==
  /\ pc[p] = "f_affected"
  /\ ~BookingsOfKeyLocked(p)
  /\ loc' = [loc EXCEPT ![p].booking_ids = AffectedBookings(p),
                        ![p].affected_passengers =
                           {<<i, j>> : i \in AffectedBookings(p),
                                       j \in 1..MaxPassengers}
                             \cap {ij \in Ids \X (1..MaxPassengers) :
                                     ij[2] <= BookRow(p, ij[1]).passengers}]
  /\ pc' = [pc EXCEPT ![p] = "f_bookings"]
  /\ UNCHANGED <<inst, booking, nextId, wInst, wBook, req, outcome,
               calls, flight_is_deleted, found>>

\* Step 3 on a connection in autocommit mode: the update is committed as the
\* statement ends.
CancelFlightBookingsAutocommit(p) ==
  /\ pc[p] = "f_bookings"
  /\ ~BookingsOfKeyLocked(p)
  /\ booking' = [i \in Ids |->
                   IF i \in AffectedBookings(p)
                   THEN [BookRow(p, i) EXCEPT
                           !.status = "cancelled_by_airline",
                           !.booking_date = @ + 1]
                   ELSE booking[i]]
  /\ loc' = [loc EXCEPT ![p].rowcount = Cardinality(AffectedBookings(p))]
  /\ pc' = [pc EXCEPT ![p] = "f_instance"]
  /\ UNCHANGED <<inst, nextId, wInst, wBook, req, outcome,
               calls, flight_is_deleted, found>>

\* Step 3: UPDATE Booking SET status = 'cancelled_by_airline',
\* booking_date = GETDATE() ...  The stamp written by GETDATE() is later
\* than the one the row had: booking_date counts the times it was written
\* after the INSERT.
CancelFlightBookings(p) ==
  /\ pc[p] = "f_bookings"
  /\ ~BookingsOfKeyLocked(p)
  /\ wBook' = [wBook EXCEPT ![p] =
                 [i \in Ids |->
                    IF i \in AffectedBookings(p)
                    THEN [BookRow(p, i) EXCEPT
                            !.status = "cancelled_by_airline",
                            !.booking_date = @ + 1]
                    ELSE wBook[p][i]]]
  /\ loc' = [loc EXCEPT ![p].rowcount = Cardinality(AffectedBookings(p))]
  /\ pc' = [pc EXCEPT ![p] = "f_instance"]
  /\ UNCHANGED <<inst, booking, nextId, wInst, req, outcome,
               calls, flight_is_deleted, found>>

\* The same update without "available_seats = 0".
CancelFlightInstanceKeepsSeats(p) ==
  /\ pc[p] = "f_instance"
  /\ ~InstLocked(p, KeyOf(p))
  /\ wInst' = [wInst EXCEPT ![p][KeyOf(p)] =
                 [InstRow(p, KeyOf(p)) EXCEPT !.present = TRUE,
                                              !.is_deleted = TRUE]]
  /\ pc' = [pc EXCEPT ![p] = "f_commit"]
  /\ UNCHANGED <<inst, booking, nextId, wBook, req, loc, outcome,
               calls, flight_is_deleted, found>>

\* Step 4: UPDATE Flight_Instance SET is_deleted = 1, available_seats = 0,
\* or, when no row was updated, the insert of a cancelled instance.
CancelFlightInstance(p) ==
  /\ pc[p] = "f_instance"
  /\ ~InstLocked(p, KeyOf(p))
  /\ wInst' = [wInst EXCEPT ![p][KeyOf(p)] =
                 [present |-> TRUE, available_seats |-> 0,
                  is_deleted |-> TRUE]]
  /\ pc' = [pc EXCEPT ![p] = "f_commit"]
  /\ UNCHANGED <<inst, booking, nextId, wBook, req, loc, outcome,
               calls, flight_is_deleted, found>>

\* A step that goes on to the search without committing.
CancelFlightCommitLater(p) ==
  /\ pc[p] = "f_commit"
  /\ pc' = [pc EXCEPT ![p] = "f_alternatives"]
  /\ UNCHANGED <<inst, booking, nextId, wInst, wBook, req, loc, outcome,
                 calls, flight_is_deleted, found>>

\* conn.commit() of the cancellation; the handler goes on.
CancelFlightCommit(p) ==
  /\ pc[p] = "f_commit"
  /\ CommitWrites(p)
  /\ pc' = [pc EXCEPT ![p] = "f_alternatives"]
  /\ UNCHANGED <<nextId, req, loc, outcome, calls, flight_is_deleted, found>>

\* The search request built for the alternatives: limit=2, seats_required=1
\* and travel_datetime=request.flight_date, whose time of day is midnight if
\* the request carries a calendar date and some time of day if it carries
\* more.
AlternativesLimit == 2
AlternativesSeats == 1
AlternativesTimes == {0, 1}

\* flight_details[5], flight_details[6]: the names of the cities of the
\* template's airports.
CityOfAirport(a) == City[Airport[a].city_id].city_name

\* What search_all_flights can return for the cancelled occurrence.
AlternativesFound(p) ==
  UNION {AllResults(
           get_airports_by_city_name(
             CityOfAirport(Flight[req[p].flight_id].source_airport)),
           get_airports_by_city_name(
             CityOfAirport(Flight[req[p].flight_id].destination_airport)),
           req[p].date, t, AlternativesSeats, AlternativesLimit)
           : t \in AlternativesTimes}

\* A call of a collaborator made after the commit, and how it went.
External(call, ok) == [call |-> call, ok |-> ok]

\* The same step handing on everything the search returned.
CancelFlightAlternativesUnfiltered(p) ==
  /\ pc[p] = "f_alternatives"
  /\ \A k \in Keys : ~InstLocked(p, k)
  /\ \E ran \in AlternativesFound(p) :
       loc' = [loc EXCEPT ![p].alternatives = ran.results,
                          ![p].external =
                             Append(@, External("search", TRUE))]
  /\ pc' = [pc EXCEPT ![p] = "f_send"]
  /\ UNCHANGED <<inst, booking, nextId, wInst, wBook, req, outcome,
                 calls, flight_is_deleted, found>>

\* Step 5: search_all_flights between the cities of the cancelled template
\* for the cancelled date, then without the itineraries that have the
\* cancelled flight_id as a leg.  The queries of the search read committed
\* rows and wait for rows another open transaction has written.
CancelFlightAlternatives(p) ==
  /\ pc[p] = "f_alternatives"
  /\ \A k \in Keys : ~InstLocked(p, k)
  /\ \E ran \in AlternativesFound(p) :
       LET keep(flight) ==
             \A j \in 1..Len(flight.flights) :
                flight.flights[j].flight_id # req[p].flight_id
       IN loc' = [loc EXCEPT ![p].alternatives = SelectSeq(ran.results, keep),
                             ![p].external =
                                Append(@, External("search", TRUE))]
  /\ pc' = [pc EXCEPT ![p] = "f_send"]
  /\ UNCHANGED <<inst, booking, nextId, wInst, wBook, req, outcome,
                 calls, flight_is_deleted, found>>

\* The same call with a failure raised instead of returned.
CancelFlightSendRaising(p) ==
  /\ pc[p] = "f_send"
  /\ UNCHANGED <<nextId, req, calls, flight_is_deleted, found>>
  /\ \E sent \in BOOLEAN :
       IF sent
       THEN /\ loc' = [loc EXCEPT ![p].alternatives_sent = sent,
                                  ![p].external =
                                     Append(@, External("alternatives", sent))]
            /\ pc' = [pc EXCEPT ![p] = "f_notify"]
            /\ UNCHANGED <<inst, booking, wInst, wBook, outcome>>
       ELSE Rollback(p, 500, "notifier failure")

\* Step 6: send_flight_alternatives(alternative_data) with the affected
\* passengers and the alternatives; it returns True, or False for a timeout,
\* an HTTP error status or any other exception.
CancelFlightSend(p) ==
  /\ pc[p] = "f_send"
  /\ \E sent \in BOOLEAN :
       loc' = [loc EXCEPT ![p].alternatives_sent = sent,
                          ![p].external =
                             Append(@, External("alternatives", sent))]
  /\ pc' = [pc EXCEPT ![p] = "f_notify"]
  /\ UNCHANGED <<inst, booking, nextId, wInst, wBook, req, outcome,
                 calls, flight_is_deleted, found>>

\* notify_flight_cancellation(flight_id, flight_date, reason), whose result
\* is dropped, then the second conn.commit() and the response.
CancelFlightNotify(p) ==
  /\ pc[p] = "f_notify"
  /\ \E notified \in BOOLEAN :
       loc' = [loc EXCEPT ![p].external =
                             Append(@, External("cancellation", notified))]
  /\ CommitWrites(p)
  /\ pc' = [pc EXCEPT ![p] = "done"]
  /\ outcome' = [outcome EXCEPT ![p] =
                   [Result(TRUE, 200, "ok") EXCEPT
                      !.affected_bookings = loc[p].rowcount,
                      !.alternatives_sent = loc[p].alternatives_sent]]
  /\ UNCHANGED <<nextId, req, calls, flight_is_deleted, found>>

\* ----------------------------------------- FlightService.cancel_bookings
\* The same validation without its check for already cancelled bookings.
CancelBookingsValidateAnyStatus(p, ids) ==
  /\ Free(p)
  /\ calls' = calls + 1
  /\ \A i \in ids : ~BookLocked(p, i)
  /\ req' = [req EXCEPT ![p] = [op |-> "cancel_bookings", flight_id |-> 0,
                                date |-> 0, seats_required |-> 0,
                                passengers |-> 0, ids |-> ids]]
  /\ UNCHANGED <<nextId, flight_is_deleted, found>>
  /\ LET existing_bookings == {i \in ids : booking[i].present}
     IN IF ids = {}
        THEN Rollback(p, 400, "No booking IDs provided")
        ELSE IF existing_bookings = {}
        THEN Rollback(p, 500, "No valid bookings found")
        ELSE IF ids \ existing_bookings # {}
        THEN RollbackListing(p, 500, "Booking IDs not found",
                             ids \ existing_bookings)
        ELSE /\ pc' = [pc EXCEPT ![p] = "k_bookings"]
             /\ loc' = [loc EXCEPT ![p] = NoLocals]
             /\ outcome' = [outcome EXCEPT ![p] = NoResult]
             /\ UNCHANGED <<inst, booking, wInst, wBook>>

\* Step 1: the listed ids exist and none is already cancelled.  An empty list
\* is refused (400) before the connection is opened.
CancelBookingsValidate(p, ids) ==
  /\ Free(p)
  /\ calls' = calls + 1
  /\ \A i \in ids : ~BookLocked(p, i)
  /\ req' = [req EXCEPT ![p] = [op |-> "cancel_bookings", flight_id |-> 0,
                                date |-> 0, seats_required |-> 0,
                                passengers |-> 0, ids |-> ids]]
  /\ UNCHANGED <<nextId, flight_is_deleted, found>>
  /\ LET existing_bookings == {i \in ids : booking[i].present}
         cancelled_bookings ==
           {i \in existing_bookings : Cancelled(booking[i].status)}
     IN IF ids = {}
        THEN Rollback(p, 400, "No booking IDs provided")
        ELSE IF existing_bookings = {}
        THEN Rollback(p, 500, "No valid bookings found")
        ELSE IF ids \ existing_bookings # {}
        THEN RollbackListing(p, 500, "Booking IDs not found",
                             ids \ existing_bookings)
        ELSE IF cancelled_bookings # {}
        THEN RollbackListing(p, 500, "Bookings already cancelled",
                             cancelled_bookings)
        ELSE /\ pc' = [pc EXCEPT ![p] = "k_bookings"]
             /\ loc' = [loc EXCEPT ![p] = NoLocals]
             /\ outcome' = [outcome EXCEPT ![p] = NoResult]
             /\ UNCHANGED <<inst, booking, wInst, wBook>>

\* Step 2: UPDATE Booking SET status = 'cancelled_by_user'
\* WHERE booking_id IN (...) AND status NOT LIKE '%cancelled%'.
CancelBookingsUpdate(p) ==
  /\ pc[p] = "k_bookings"
  /\ \A i \in req[p].ids : ~BookLocked(p, i)
  /\ wBook' = [wBook EXCEPT ![p] =
                 [i \in Ids |->
                    IF /\ i \in req[p].ids
                       /\ BookRow(p, i).present
                       /\ ~Cancelled(BookRow(p, i).status)
                    THEN [BookRow(p, i) EXCEPT !.status = "cancelled_by_user"]
                    ELSE wBook[p][i]]]
  /\ pc' = [pc EXCEPT ![p] = "k_seats"]
  /\ UNCHANGED <<inst, booking, nextId, wInst, req, loc, outcome,
               calls, flight_is_deleted, found>>

\* passenger_counts: COUNT(p.passenger_id) of the listed bookings,
\* GROUP BY flight_id, travel_date.
PassengerCount(p, k) ==
  SumOver({i \in req[p].ids : OnKey(BookRow(p, i), k[1], k[2])},
          [i \in Ids |-> BookRow(p, i).passengers])

ReleasedKeys(p) ==
  {k \in Keys : /\ \E i \in req[p].ids : OnKey(BookRow(p, i), k[1], k[2])
                /\ InstRow(p, k).present}

\* Step 3: UPDATE fi SET available_seats = available_seats + passenger_count.
CancelBookingsSeats(p) ==
  /\ pc[p] = "k_seats"
  /\ \A i \in req[p].ids : ~BookLocked(p, i)
  /\ \A k \in ReleasedKeys(p) : ~InstLocked(p, k)
  /\ wInst' = [wInst EXCEPT ![p] =
                 [k \in Keys |->
                    IF k \in ReleasedKeys(p)
                    THEN [InstRow(p, k) EXCEPT
                            !.available_seats = @ + PassengerCount(p, k)]
                    ELSE wInst[p][k]]]
  /\ pc' = [pc EXCEPT ![p] = "k_commit"]
  /\ UNCHANGED <<inst, booking, nextId, wBook, req, loc, outcome,
               calls, flight_is_deleted, found>>

CancelBookingsCommit(p) ==
  /\ pc[p] = "k_commit"
  /\ Commit(p)
  /\ UNCHANGED <<nextId, req, loc, calls, flight_is_deleted, found>>

\* ------------------------------------------------------------ the store
InTransaction(p) == pc[p] \notin {"idle", "done", "failed"}

\* A statement raises (connectivity, transaction error): the except clause
\* of the handler rolls back and answers 500.
StoreFailure(p) ==
  /\ InTransaction(p)
  /\ Rollback(p, 500, "store failure")
  /\ UNCHANGED <<nextId, req, calls, flight_is_deleted, found>>

Next ==
  \E p \in Procs :
    \/ \E f \in RequestFlightIds, d \in Dates, n \in 1..MaxSeats,
          m \in 0..MaxPassengers : BookCheck(p, f, d, n, m)
    \/ BookInsertInstance(p)
    \/ BookAvailability(p)
    \/ BookInsertBooking(p)
    \/ BookInsertPassengers(p)
    \/ BookUpdateSeats(p)
    \/ BookCommit(p)
    \/ \E f \in RequestFlightIds, d \in Dates : CancelFlightDetails(p, f, d)
    \/ CancelFlightAffected(p)
    \/ CancelFlightBookings(p)
    \/ CancelFlightInstance(p)
    \/ CancelFlightCommit(p)
    \/ CancelFlightAlternatives(p)
    \/ CancelFlightSend(p)
    \/ CancelFlightNotify(p)
    \/ \E ids \in SUBSET Ids : CancelBookingsValidate(p, ids)
    \/ CancelBookingsUpdate(p)
    \/ CancelBookingsSeats(p)
    \/ CancelBookingsCommit(p)
    \/ StoreFailure(p)

Spec == Init /\ [][Next]_vars

\* The owner of the catalogue withdraws a template: Flight.is_deleted = 1.
SoftDeleteFlight(f) ==
  /\ ~flight_is_deleted[f]
  /\ flight_is_deleted' = [flight_is_deleted EXCEPT ![f] = TRUE]
  /\ UNCHANGED <<inst, booking, nextId, wInst, wBook, pc, req, loc, outcome,
                 calls, found>>

NextCatalogue ==
  \/ Next
  \/ \E f \in Flights \cap RequestFlightIds : SoftDeleteFlight(f)

SpecCatalogue == Init /\ [][NextCatalogue]_vars

\* The store after two book_flight calls of one seat and one passenger each
\* have filled flight 1 on date 1.
InitBooked ==
  /\ inst = [k \in Keys |->
               IF k = <<1, 1>>
               THEN [present |-> TRUE, available_seats |-> 0,
                     is_deleted |-> FALSE]
               ELSE NoInstance]
  /\ booking = [i \in Ids |->
                  IF i \in {1, 2}
                  THEN [present |-> TRUE, flight_id |-> 1, travel_date |-> 1,
                        status |-> "confirmed",
                        total_price |-> Flight[1].base_price,
                        passengers |-> 1, booking_date |-> 0]
                  ELSE NoBooking]
  /\ nextId = 3
  /\ wInst = [p \in Procs |-> NoInstWrites]
  /\ wBook = [p \in Procs |-> NoBookWrites]
  /\ pc = [p \in Procs |-> "idle"]
  /\ req = [p \in Procs |-> NoRequest]
  /\ loc = [p \in Procs |-> NoLocals]
  /\ outcome = [p \in Procs |-> NoResult]
  /\ calls = 0
  /\ flight_is_deleted = [f \in Flights |-> FALSE]
  /\ found = NoSearch

SpecBooked == InitBooked /\ [][Next]_vars

\* ----------------------------------------------------- search handlers
SearchRequest(op, c1, c2, d, t, n, limit) ==
  [op |-> op, source_city |-> c1, destination_city |-> c2, date |-> d,
   time |-> t, seats_required |-> n, limit |-> limit, status |-> 200,
   results |-> <<>>, searched |-> <<>>]

\* A search handler that also inserts the Flight_Instance row of flight 1 on
\* the date searched when there is none.
SearchCreatingInstance(op, c1, c2, d, t, n, limit, ran) ==
  /\ found' =
       IF \/ get_airports_by_city_name(c1) = {}
          \/ get_airports_by_city_name(c2) = {}
       THEN [SearchRequest(op, c1, c2, d, t, n, limit) EXCEPT !.status = 500]
       ELSE [SearchRequest(op, c1, c2, d, t, n, limit) EXCEPT
               !.results = ran.results, !.searched = ran.searched]
  /\ inst' = [inst EXCEPT ![<<1, d>>] =
                IF @.present THEN @
                ELSE [present |-> TRUE,
                      available_seats |-> Flight[1].total_seats,
                      is_deleted |-> FALSE]]
  /\ UNCHANGED <<booking, nextId, wInst, wBook, pc, req, loc, outcome,
                 calls, flight_is_deleted>>

\* A search handler: 404 for a city without airports (answered as 500 by the
\* connection manager), else one of the result lists the queries can give.
Search(op, c1, c2, d, t, n, limit, ran) ==
  /\ found' =
       IF \/ get_airports_by_city_name(c1) = {}
          \/ get_airports_by_city_name(c2) = {}
       THEN [SearchRequest(op, c1, c2, d, t, n, limit) EXCEPT !.status = 500]
       ELSE [SearchRequest(op, c1, c2, d, t, n, limit) EXCEPT
               !.results = ran.results, !.searched = ran.searched]
  /\ UNCHANGED <<inst, booking, nextId, wInst, wBook, pc, req, loc, outcome,
                 calls, flight_is_deleted>>

\* A run makes one search: a search leaves the store as it is, so a second
\* search is the first search of the run that starts from the same store.
search_direct_flights(c1, c2, d, t, n, limit) ==
  /\ found = NoSearch
  /\ \E results \in
        DirectResults(get_airports_by_city_name(c1),
                      get_airports_by_city_name(c2), d, t, n, limit) :
          Search("direct", c1, c2, d, t, n, limit,
                 Ran(results, <<<<"direct", d>>>>))

search_connecting_flights(c1, c2, d, t, n, limit) ==
  /\ found = NoSearch
  /\ \E results \in
        ConnectingResults(get_airports_by_city_name(c1),
                          get_airports_by_city_name(c2), d, t, n, limit) :
          Search("connecting", c1, c2, d, t, n, limit,
                 Ran(results, <<<<"connecting", d>>>>))

search_all_flights(c1, c2, d, t, n, limit) ==
  /\ found = NoSearch
  /\ \E ran \in
        AllResults(get_airports_by_city_name(c1),
                   get_airports_by_city_name(c2), d, t, n, limit) :
          Search("all", c1, c2, d, t, n, limit, ran)

search_internal_flight(c1, c2, d, t, n, limit) ==
  /\ found = NoSearch
  /\ \E results \in
        InternalResults(get_airports_by_city_name(c1),
                        get_airports_by_city_name(c2), d, t, n) :
          Search("internal", c1, c2, d, t, n, limit,
                 Ran(results, <<<<"internal", d>>>>))

\* The stores the searches are run against.  A Flight_Instance row is absent,
\* open with no seat or all seats left, or marked deleted (by cancel_flight)
\* with no seat or, after a cancel_bookings that ran across it, seats; at
\* most one template is withdrawn.  Searches read neither Booking nor
\* Passenger.
SearchedRows(f) ==
  {NoInstance} \cup
  [present : {TRUE}, available_seats : {0, Flight[f].total_seats},
   is_deleted : BOOLEAN]

InitSearch ==
  /\ inst \in {t \in [Keys -> UNION {SearchedRows(f) : f \in Flights}] :
                 \A k \in Keys : t[k] \in SearchedRows(k[1])}
  /\ flight_is_deleted \in
       {[f \in Flights |-> f = g] : g \in {0, 1, 4}}
  /\ booking = [i \in Ids |-> NoBooking]
  /\ nextId = 1
  /\ wInst = [p \in Procs |-> NoInstWrites]
  /\ wBook = [p \in Procs |-> NoBookWrites]
  /\ pc = [p \in Procs |-> "idle"]
  /\ req = [p \in Procs |-> NoRequest]
  /\ loc = [p \in Procs |-> NoLocals]
  /\ outcome = [p \in Procs |-> NoResult]
  /\ calls = 0
  /\ found = NoSearch

SearchCities == {"X", "W"} \X {"Y", "Z"}
SearchTimes == {0, 1}

NextSearch ==
  \E c \in SearchCities, d \in Dates, t \in SearchTimes, n \in 1..MaxSeats,
     limit \in 1..MaxLimit :
       \/ search_direct_flights(c[1], c[2], d, t, n, limit)
       \/ search_connecting_flights(c[1], c[2], d, t, n, limit)
       \/ search_all_flights(c[1], c[2], d, t, n, limit)
       \/ search_internal_flight(c[1], c[2], d, t, n, limit)

SpecSearch == InitSearch /\ [][NextSearch]_vars

\* ============================================================== claims
\* What the committed tables say about an occurrence.
SeatsOf(i) == booking[i].total_price \div Flight[booking[i].flight_id].base_price

BookingsOn(k) == {i \in Ids : OnKey(booking[i], k[1], k[2])}

ConfirmedOn(k) == {i \in BookingsOn(k) : booking[i].status = "confirmed"}

SeatsTotal(S) == SumOver(S, [i \in Ids |-> SeatsOf(i)])

AvailableSeats(k) ==
  IF inst[k].present THEN inst[k].available_seats
  ELSE Flight[k[1]].total_seats

TablesUnchanged == inst' = inst /\ booking' = booking

\* C1: however book calls on one occurrence interleave, the seats of its
\* committed confirmed bookings never sum to more than the template's
\* total_seats, and available_seats never drops below 0.
C1_NoOversell ==
  \A k \in Keys :
    inst[k].present =>
      /\ SeatsTotal(ConfirmedOn(k)) <= Flight[k[1]].total_seats
      /\ inst[k].available_seats >= 0

\* C2: every existing FlightInstance has
\* 0 <= available_seats <= total_seats of its template.
C2_SeatsInRange ==
  \A k \in Keys :
    inst[k].present =>
      /\ 0 <= inst[k].available_seats
      /\ inst[k].available_seats <= Flight[k[1]].total_seats

\* C3: a FlightInstance marked deleted has available_seats = 0.
C3_DeletedHasNoSeats ==
  \A k \in Keys :
    inst[k].present /\ inst[k].is_deleted => inst[k].available_seats = 0

\* C4: for every instance, the seats reserved against it by book minus the
\* seats released against it by cancellation equal
\* total_seats - available_seats.
C4_NoDrift ==
  \A k \in Keys :
    inst[k].present =>
      SeatsTotal(BookingsOn(k))
        - SeatsTotal({i \in BookingsOn(k) : Cancelled(booking[i].status)})
      = Flight[k[1]].total_seats - inst[k].available_seats

\* The whole committed effect of a successful book call of request p.
BookEffect(p) ==
  LET k == KeyOf(p)
      i == loc[p].booking_id
      f == req[p].flight_id
  IN /\ booking' = [booking EXCEPT ![i] =
                      [present |-> TRUE, flight_id |-> f,
                       travel_date |-> req[p].date, status |-> "confirmed",
                       total_price |-> Flight[f].base_price
                                         * req[p].seats_required,
                       passengers |-> req[p].passengers,
                       booking_date |-> 0]]
     /\ ~booking[i].present
     /\ inst' = [inst EXCEPT ![k] =
                   [present |-> TRUE,
                    available_seats |->
                      AvailableSeats(k) - req[p].seats_required,
                    is_deleted |-> inst[k].is_deleted]]

\* C5: book is atomic.  A step of a book call either leaves the committed
\* instance and booking tables (passenger rows included) as they are, or it
\* is the call's commit and adds the instance row if there was none, the
\* Booking row, all its Passenger rows and the seat debit together; a call
\* that fails has changed nothing.
C5_BookAtomic ==
  [][\A p \in Procs :
       /\ (calls' # calls) => TablesUnchanged
       /\ (req[p].op = "book" /\ InTransaction(p) /\ pc'[p] # pc[p]) =>
            \/ TablesUnchanged /\ pc'[p] # "done"
            \/ pc'[p] = "done" /\ BookEffect(p)]_vars

\* C5 witness: a book call with passengers has committed while another book
\* call has failed after its transaction began.
C5_Witness ==
  \E p, q \in Procs :
    /\ pc[p] = "done" /\ req[p].op = "book" /\ req[p].passengers > 0
    /\ booking[loc[p].booking_id].passengers = req[p].passengers
    /\ pc[q] = "failed" /\ req[q].op = "book"
    /\ outcome[q].detail \in {"insufficient seats", "store failure"}

\* C6: a successful book followed by cancel_bookings of exactly that booking
\* leaves the effective availability of the occurrence at its value before
\* the book call (here: the two calls are the whole run).
C6_RoundTrip ==
  \A p, q \in Procs :
    ( /\ calls = 2
      /\ pc[p] = "done" /\ req[p].op = "book"
      /\ pc[q] = "done" /\ req[q].op = "cancel_bookings"
      /\ req[q].ids = {loc[p].booking_id} )
    => AvailableSeats(KeyOf(p)) = loc[p].available_seats

\* C7: when two callers both make the first book for an occurrence, one
\* instance row is seeded once and both seat debits are applied to it
\* (here: the two calls are the whole run, their seats fit the capacity and
\* the store itself does not fail).
C7_FirstBookBoth ==
  \A p, q \in Procs :
    ( /\ p # q /\ calls = 2
      /\ pc[p] \in {"done", "failed"} /\ req[p].op = "book"
      /\ pc[q] \in {"done", "failed"} /\ req[q].op = "book"
      /\ KeyOf(p) = KeyOf(q) /\ KeyOf(p) \in Keys
      /\ outcome[p].detail # "store failure"
      /\ outcome[q].detail # "store failure"
      /\ req[p].seats_required + req[q].seats_required
           <= Flight[req[p].flight_id].total_seats )
    => /\ outcome[p].ok /\ outcome[q].ok
       /\ inst[KeyOf(p)].available_seats =
            Flight[req[p].flight_id].total_seats
              - req[p].seats_required - req[q].seats_required

\* C8: booking status is monotone: a booking is created confirmed, and once
\* it is cancelled_by_user or cancelled_by_airline no operation changes its
\* status again.
C8_StatusMonotone ==
  [][\A i \in Ids :
       /\ (~booking[i].present /\ booking'[i].present) =>
            booking'[i].status = "confirmed"
       /\ (booking[i].present /\ Cancelled(booking[i].status)) =>
            booking'[i].status = booking[i].status]_vars

\* C9: when cancel_flight commits, every booking of the occurrence that was
\* confirmed before the call is cancelled_by_airline and the instance is
\* marked deleted with available_seats = 0.
C9_CancelFlightEffect ==
  [][\A p \in Procs :
       (pc[p] = "f_commit" /\ pc'[p] = "f_alternatives") =>
         /\ \A i \in loc[p].before :
              booking'[i].status = "cancelled_by_airline"
         /\ inst'[KeyOf(p)] = [present |-> TRUE, available_seats |-> 0,
                               is_deleted |-> TRUE]]_vars

\* C9 witness: a cancel_flight has committed on an occurrence that had a
\* confirmed booking before the call.
C9_Witness ==
  \E p \in Procs :
    /\ pc[p] = "done" /\ req[p].op = "cancel_flight"
    /\ loc[p].before # {}
    /\ \A i \in loc[p].before : booking[i].status = "cancelled_by_airline"

Enters(p) ==
  /\ calls' # calls
  /\ <<pc'[p], req'[p], outcome'[p]>> # <<pc[p], req[p], outcome[p]>>

MissingIds(ids) == {i \in ids : ~booking[i].present}

AlreadyCancelledIds(ids) ==
  {i \in ids : booking[i].present /\ Cancelled(booking[i].status)}

\* The ids validation has to name: the unmatched ones, else the cancelled ones.
OffendingIds(ids) ==
  IF MissingIds(ids) # {} THEN MissingIds(ids) ELSE AlreadyCancelledIds(ids)

FailsValidation(ids) ==
  ids = {} \/ MissingIds(ids) # {} \/ AlreadyCancelledIds(ids) # {}

\* C11 as stated: a cancel_bookings call whose list is empty, or has an id
\* that matches no booking, or has a booking already cancelled, fails
\* listing the offending ids and changes no booking and no instance.
C11_ValidationListsOffenders ==
  [][\A p \in Procs :
       ( /\ Enters(p)
         /\ req'[p].op = "cancel_bookings"
         /\ FailsValidation(req'[p].ids) )
       => /\ pc'[p] = "failed"
          /\ ~outcome'[p].ok
          /\ outcome'[p].ids = OffendingIds(req'[p].ids)
          /\ TablesUnchanged]_vars

\* C11 amended: such a call fails and changes no booking and no instance;
\* it lists the unmatched ids when some but not all ids match a booking, and
\* the already cancelled ids when all match; when no id matches it answers
\* "No valid bookings found" and lists none.
C11_ValidationAllOrNothing ==
  [][\A p \in Procs :
       ( /\ Enters(p)
         /\ req'[p].op = "cancel_bookings"
         /\ FailsValidation(req'[p].ids) )
       => /\ pc'[p] = "failed"
          /\ ~outcome'[p].ok
          /\ outcome'[p].ids =
               IF MissingIds(req'[p].ids) = req'[p].ids THEN {}
               ELSE OffendingIds(req'[p].ids)
          /\ MissingIds(req'[p].ids) = req'[p].ids /\ req'[p].ids # {}
               => outcome'[p].detail = "No valid bookings found"
          /\ TablesUnchanged]_vars

\* C11 witness: a batch with one confirmed and one already cancelled booking
\* was refused: the cancelled id is listed and the confirmed one still is
\* confirmed.
C11_Witness ==
  \E p \in Procs, i, j \in Ids :
    /\ pc[p] = "failed" /\ req[p].op = "cancel_bookings"
    /\ req[p].ids = {i, j}
    /\ outcome[p].detail = "Bookings already cancelled"
    /\ outcome[p].ids = {j}
    /\ booking[i].status = "confirmed"
    /\ booking[j].status = "cancelled_by_user"

\* The passengers of the listed bookings of occurrence k, as committed.
ListedPassengers(ids, k) ==
  SumOver({i \in ids : OnKey(booking[i], k[1], k[2])},
          [i \in Ids |-> booking[i].passengers])

\* C12: when cancel_bookings(ids) commits, every listed booking is
\* cancelled_by_user, the instance of each occurrence among them has gained
\* exactly the passengers of the listed bookings of that occurrence, and every
\* other instance is unchanged.
C12_CancelBookingsEffect ==
  [][\A p \in Procs :
       (pc[p] = "k_commit" /\ pc'[p] = "done") =>
         /\ \A i \in req[p].ids : booking'[i].status = "cancelled_by_user"
         /\ \A k \in Keys :
              inst'[k] = [inst[k] EXCEPT !.available_seats =
                                  @ + ListedPassengers(req[p].ids, k)]]_vars

\* C13: when book(template, date, n, passengers) commits, then on a date
\* with no instance row the instance is created with
\* available_seats = total_seats - n, on a date with an instance row its
\* available_seats drops by exactly n, and exactly one booking is recorded,
\* confirmed, with total_price = base_price * n.
C13_BookEffect ==
  [][\A p \in Procs :
       (pc[p] = "b_commit" /\ pc'[p] = "done") =>
         LET k == KeyOf(p)
             n == req[p].seats_required
             new == {i \in Ids : booking'[i] # booking[i]}
         IN /\ ~inst[k].present =>
                 inst'[k] = [present |-> TRUE,
                             available_seats |-> Flight[k[1]].total_seats - n,
                             is_deleted |-> FALSE]
            /\ inst[k].present =>
                 /\ inst'[k].present
                 /\ inst'[k].available_seats = inst[k].available_seats - n
            /\ new = {loc[p].booking_id}
            /\ \A i \in new :
                 /\ ~booking[i].present
                 /\ OnKey(booking'[i], k[1], k[2])
                 /\ booking'[i].status = "confirmed"
                 /\ booking'[i].total_price = Flight[k[1]].base_price * n]_vars

\* C13 witness: two book calls on one occurrence have committed, the first
\* created the instance row and the second found it.
C13_Witness ==
  \E p, q \in Procs :
    /\ pc[p] = "done" /\ req[p].op = "book" /\ loc[p].created
    /\ pc[q] = "done" /\ req[q].op = "book" /\ ~loc[q].created
    /\ KeyOf(p) = KeyOf(q)
    /\ req[p].seats_required # req[p].passengers
    /\ booking[loc[p].booking_id].total_price =
         Flight[req[p].flight_id].base_price * req[p].seats_required
    /\ inst[KeyOf(p)].available_seats =
         Flight[req[p].flight_id].total_seats
           - req[p].seats_required - req[q].seats_required

\* C14: a book call asking for more seats than the effective availability of
\* its occurrence is rejected and leaves the store as it was: none of its
\* steps changes the committed bookings (passenger rows included) or
\* instances, so neither a debit nor the instance row it inserted remains.
C14_ShortfallRejected ==
  [][\A p \in Procs :
       /\ ( /\ Enters(p) /\ req'[p].op = "book"
            /\ <<req'[p].flight_id, req'[p].date>> \in Keys
            /\ req'[p].seats_required >
                 AvailableSeats(<<req'[p].flight_id, req'[p].date>>) )
          => /\ TablesUnchanged
             /\ pc'[p] = "b_instance" \/
                  (pc'[p] = "failed"
                     /\ outcome'[p].detail \in {"insufficient seats",
                                                "Flight not found"})
       /\ ( /\ req[p].op = "book"
            /\ pc[p] \in {"b_instance", "b_available"}
            /\ pc'[p] # pc[p]
            /\ req[p].seats_required > Flight[req[p].flight_id].total_seats )
          => /\ TablesUnchanged
             /\ pc'[p] \in {"b_available", "failed"}
             /\ pc[p] = "b_available" =>
                  outcome'[p].detail \in {"insufficient seats",
                                          "store failure"}]_vars

\* C14 witness: a first book call for an occurrence asked for more seats than
\* the template has, was rejected, and the occurrence has no instance row.
C14_Witness ==
  \E p \in Procs :
    /\ pc[p] = "failed" /\ req[p].op = "book"
    /\ outcome[p].detail = "insufficient seats"
    /\ KeyOf(p) \in Keys
    /\ req[p].seats_required > Flight[req[p].flight_id].total_seats
    /\ ~inst[KeyOf(p)].present
    /\ \A i \in Ids : ~booking[i].present

\* C15: a book call on a template that is missing or soft-deleted fails
\* with "Flight not found" and changes no table, whether or not the
\* occurrence has an instance row.
C15_InactiveTemplateRejected ==
  [][\A p \in Procs :
       ( /\ Enters(p) /\ req'[p].op = "book"
         /\ \/ req'[p].flight_id \notin Flights
            \/ flight_is_deleted[req'[p].flight_id] )
       => /\ pc'[p] = "failed"
          /\ outcome'[p].detail = "Flight not found"
          /\ TablesUnchanged]_vars

\* The conditions a handler detects itself (not found, capacity exceeded,
\* invalid state), by the detail text it raises them with.
DetectedConditions ==
  {"Flight not found", "insufficient seats",
   "Flight not found or already deleted", "No booking IDs provided",
   "No valid bookings found", "Booking IDs not found",
   "Bookings already cancelled"}

\* C16: a not-found, capacity-exceeded or invalid-state outcome of book,
\* cancel_flight or cancel_bookings reaches the caller as that condition,
\* never as the generic failure (HTTP 500) that reports a failure of the
\* store.
C16_ErrorKindsPreserved ==
  \A p \in Procs :
    (pc[p] = "failed" /\ outcome[p].detail \in DetectedConditions)
      => outcome[p].status # 500

\* Effective availability (the availability resolver): the seat count of
\* the instance of (template, date) if there is one not marked deleted, else
\* the template's total_seats.
EffectiveAvailability(f, d) ==
  IF InstanceOf(f, d).present /\ ~InstanceOf(f, d).is_deleted
  THEN InstanceOf(f, d).available_seats
  ELSE Flight[f].total_seats

InstanceDeleted(f, d) == InstanceOf(f, d).present /\ InstanceOf(f, d).is_deleted

AirportsOfCity(name) ==
  {a \in Airports : City[Airport[a].city_id].city_name = name}

\* The conditions C17 lists, for the request in found.
QualifiesAsListed(f) ==
  /\ ~flight_is_deleted[f]
  /\ Flight[f].source_airport \in AirportsOfCity(found.source_city)
  /\ Flight[f].destination_airport \in AirportsOfCity(found.destination_city)
  /\ Flight[f].departure_time >= found.time
  /\ EffectiveAvailability(f, found.date) >= found.seats_required

\* The conditions of the direct-search contract: those, and no instance
\* marked deleted on the travel date.
Qualifies(f) == QualifiesAsListed(f) /\ ~InstanceDeleted(f, found.date)

DirectAnswer == found.op = "direct" /\ found.status = 200

Returned == {found.results[i].flights[1].flight_id : i \in 1..Len(found.results)}

\* C17 as stated: a direct search returns only one-leg itineraries of
\* templates that are active, on the route, depart at or after the minimum
\* time and have effective availability >= the seats asked for; and when
\* fewer than limit such templates exist it returns every one of them.
C17_DirectListed ==
  DirectAnswer =>
    /\ \A i \in 1..Len(found.results) : Len(found.results[i].flights) = 1
    /\ \A f \in Returned : QualifiesAsListed(f)
    /\ Cardinality({f \in Flights : QualifiesAsListed(f)}) < found.limit
         => Returned = {f \in Flights : QualifiesAsListed(f)}

\* C17 amended: the same with "and whose instance for the travel date, if
\* any, is not marked deleted" among the conditions.
C17_DirectQualifying ==
  DirectAnswer =>
    /\ \A i \in 1..Len(found.results) : Len(found.results[i].flights) = 1
    /\ \A f \in Returned : Qualifies(f)
    /\ Cardinality({f \in Flights : Qualifies(f)}) < found.limit
         => Returned = {f \in Flights : Qualifies(f)}

\* C17 witness: a direct search with a minimum time that some template of
\* the route misses and a seat count that another cannot give returned the
\* one template left, short of its limit.
C17_Witness ==
  /\ DirectAnswer
  /\ Len(found.results) = 1 /\ found.limit > 1
  /\ \E f \in Flights \ Returned :
       /\ Flight[f].source_airport \in AirportsOfCity(found.source_city)
       /\ Flight[f].departure_time < found.time
       /\ EffectiveAvailability(f, found.date) >= found.seats_required
  /\ \E f \in Flights \ Returned :
       /\ Flight[f].source_airport \in AirportsOfCity(found.source_city)
       /\ Flight[f].departure_time >= found.time
       /\ ~InstanceDeleted(f, found.date)
       /\ EffectiveAvailability(f, found.date) < found.seats_required

\* base price ascending, ties by departure time of day ascending
PriceThenDeparture(f, g) ==
  \/ Flight[f].base_price < Flight[g].base_price
  \/ /\ Flight[f].base_price = Flight[g].base_price
     /\ Flight[f].departure_time <= Flight[g].departure_time

\* C18: a direct search returns at most limit itineraries, in order of base
\* price ascending with ties broken by departure time ascending, and they
\* are the first limit of all qualifying templates in that order.
C18_DirectOrderAndLimit ==
  DirectAnswer =>
    LET leg(i) == found.results[i].flights[1]
        qualifying == {f \in Flights : Qualifies(f)}
    IN /\ Len(found.results) <= found.limit
       /\ \A i, j \in 1..Len(found.results) :
            i < j =>
              \/ leg(i).base_price < leg(j).base_price
              \/ /\ leg(i).base_price = leg(j).base_price
                 /\ leg(i).departure_time <= leg(j).departure_time
       /\ Len(found.results) =
            IF Cardinality(qualifying) < found.limit
            THEN Cardinality(qualifying) ELSE found.limit
       /\ Cardinality(Returned) = Len(found.results)
       /\ \A f \in Returned, g \in qualifying \ Returned :
            PriceThenDeparture(f, g)

\* C18 witness: a direct search returned two itineraries of equal price, the
\* earlier departure first, and its limit left a qualifying template out.
C18_Witness ==
  /\ DirectAnswer
  /\ Len(found.results) = 2 /\ found.limit = 2
  /\ found.results[1].flights[1].base_price
       = found.results[2].flights[1].base_price
  /\ found.results[1].flights[1].departure_time
       < found.results[2].flights[1].departure_time
  /\ \E g \in Flights \ Returned : Qualifies(g)

\* C19: every direct-search result reports its departure on the travel date
\* and its arrival on the travel date plus the template's
\* arrival_day_offset.
C19_DirectArrivalDate ==
  DirectAnswer =>
    \A i \in 1..Len(found.results) :
      LET leg == found.results[i].flights[1]
      IN /\ leg.departure_date = found.date
         /\ leg.arrival_date =
              found.date + Flight[leg.flight_id].arrival_day_offset

\* C20: no search result (direct, connecting, search_all) has a leg whose
\* template has an instance marked deleted on the date the leg is searched
\* for.
C20_DeletedNeverALeg ==
  (found.op \in {"direct", "connecting", "all"} /\ found.status = 200) =>
    \A i \in 1..Len(found.results) :
      \A j \in 1..Len(found.results[i].flights) :
        ~InstanceDeleted(found.results[i].flights[j].flight_id,
                         found.results[i].flights[j].departure_date)

ConnectingAnswer == found.op = "connecting" /\ found.status = 200

\* The pair of templates of a two-leg itinerary.
PairOf(it) == <<it.flights[1].flight_id, it.flights[2].flight_id>>

\* The conditions C21 lists for a pair of templates, for the request in
\* found.
PairQualifies(f1, f2) ==
  /\ Flight[f1].destination_airport = Flight[f2].source_airport
  /\ Flight[f1].source_airport \in AirportsOfCity(found.source_city)
  /\ Flight[f2].destination_airport \in AirportsOfCity(found.destination_city)
  /\ ~flight_is_deleted[f1] /\ ~flight_is_deleted[f2]
  /\ EffectiveAvailability(f1, found.date) >= found.seats_required
  /\ EffectiveAvailability(f2, found.date) >= found.seats_required
  /\ Flight[f1].departure_time >= found.time

\* C21: a connecting search returns only two-leg itineraries (leg1, leg2)
\* with leg1's destination airport leg2's source airport, leg1 from the
\* source set, leg2 into the destination set, both templates active, both
\* legs with effective availability >= the seats asked for and leg1 departing
\* at or after the minimum time (leg2 at any time); the total price of each
\* is the sum of the two base prices and its total duration the sum of the
\* two durations.
C21_ConnectingQualifying ==
  ConnectingAnswer =>
    \A i \in 1..Len(found.results) :
      LET it == found.results[i]
      IN /\ Len(it.flights) = 2
         /\ it.flights[1].destination_airport = it.flights[2].source_airport
         /\ PairOf(it) \in Flights \X Flights
         /\ PairQualifies(PairOf(it)[1], PairOf(it)[2])
         /\ it.total_price =
              Flight[PairOf(it)[1]].base_price
                + Flight[PairOf(it)[2]].base_price
         /\ it.total_duration_minutes =
              Flight[PairOf(it)[1]].duration_minutes
                + Flight[PairOf(it)[2]].duration_minutes

\* C21 witness: a connecting search returned an itinerary whose second leg
\* departs before the minimum time, and left out a pair that connects on the
\* route because its second leg has too few seats.
C21_Witness ==
  /\ ConnectingAnswer
  /\ \E i \in 1..Len(found.results) :
       found.results[i].flights[2].departure_time < found.time
  /\ Len(found.results) < found.limit
  /\ \E f1, f2 \in Flights :
       /\ Flight[f1].destination_airport = Flight[f2].source_airport
       /\ Flight[f1].source_airport \in AirportsOfCity(found.source_city)
       /\ Flight[f2].destination_airport
            \in AirportsOfCity(found.destination_city)
       /\ EffectiveAvailability(f1, found.date) >= found.seats_required
       /\ EffectiveAvailability(f2, found.date) < found.seats_required
       /\ \A i \in 1..Len(found.results) : PairOf(found.results[i]) # <<f1, f2>>

QualifyingPairs ==
  {pair \in Flights \X Flights : PairQualifies(pair[1], pair[2])}

ReturnedPairs == {PairOf(found.results[i]) : i \in 1..Len(found.results)}

\* total price ascending, ties by total duration ascending
PriceThenDuration(a, b) ==
  LET price(x) == Flight[x[1]].base_price + Flight[x[2]].base_price
      duration(x) ==
        Flight[x[1]].duration_minutes + Flight[x[2]].duration_minutes
  IN \/ price(a) < price(b)
     \/ price(a) = price(b) /\ duration(a) <= duration(b)

AllAnswer == found.op = "all" /\ found.status = 200

IsPrefix(s, t) == Len(s) <= Len(t) /\ \A i \in 1..Len(s) : s[i] = t[i]

\* The day an itinerary departs and the number of its legs.
DayOf(it) == it.flights[1].departure_date
LegsOf(it) == Len(it.flights)

\* C23: search_all returns at most limit itineraries, and its result is a
\* prefix of the concatenation of direct(d), connecting(d) cut to the
\* shortfall of day d, direct(d+1) and connecting(d+1) cut to its shortfall,
\* in that order: within a day the direct results precede the connecting
\* ones, the results of day d precede those of day d+1, and nothing is
\* sorted again.
C23_AllStagedPrefix ==
  AllAnswer =>
    LET src == get_airports_by_city_name(found.source_city)
        dst == get_airports_by_city_name(found.destination_city)
        direct(d) == DirectResults(src, dst, d, found.time,
                                   found.seats_required, found.limit)
        connecting(d) == ConnectingResults(src, dst, d, found.time,
                                           found.seats_required, found.limit)
        cut(con, dir) == FirstRows(con, found.limit - Len(dir))
    IN /\ Len(found.results) <= found.limit
       /\ \E dir0 \in direct(found.date), con0 \in connecting(found.date),
             dir1 \in direct(found.date + 1),
             con1 \in connecting(found.date + 1) :
            IsPrefix(found.results,
                     dir0 \o cut(con0, dir0) \o dir1 \o cut(con1, dir1))
       /\ \A i, j \in 1..Len(found.results) :
            i < j =>
              /\ DayOf(found.results[i]) <= DayOf(found.results[j])
              /\ DayOf(found.results[i]) = DayOf(found.results[j])
                   => LegsOf(found.results[i]) <= LegsOf(found.results[j])

\* C23 witness: a search_all with limit 3 returned a direct itinerary of the
\* day asked for, then a connecting one of that day that costs more than the
\* direct itinerary of the next day that follows it.
C23_Witness ==
  /\ AllAnswer
  /\ found.limit = 3 /\ Len(found.results) = 3
  /\ LegsOf(found.results[1]) = 1 /\ DayOf(found.results[1]) = found.date
  /\ LegsOf(found.results[2]) = 2 /\ DayOf(found.results[2]) = found.date
  /\ LegsOf(found.results[3]) = 1 /\ DayOf(found.results[3]) = found.date + 1
  /\ found.results[2].total_price > found.results[3].total_price

\* The conditions of the direct-search contract for travel date x.
QualifiesOn(f, x) ==
  /\ ~flight_is_deleted[f]
  /\ Flight[f].source_airport \in AirportsOfCity(found.source_city)
  /\ Flight[f].destination_airport \in AirportsOfCity(found.destination_city)
  /\ Flight[f].departure_time >= found.time
  /\ EffectiveAvailability(f, x) >= found.seats_required
  /\ ~InstanceDeleted(f, x)

\* C24: search_all runs the connecting search of a day only when the direct
\* search of that day returned fewer than limit itineraries, searches the
\* following date only when the requested date gave fewer than limit
\* itineraries in all, and neither searches nor returns anything for a date
\* after the requested date + 1.
C24_AllSearchesOnlyWhenShort ==
  AllAnswer =>
    /\ \A k \in 1..Len(found.searched) :
         /\ found.searched[k][2] \in {found.date, found.date + 1}
         /\ found.searched[k][1] = "connecting" =>
              Cardinality({f \in Flights :
                             QualifiesOn(f, found.searched[k][2])})
                < found.limit
    /\ (\E k \in 1..Len(found.searched) :
          found.searched[k][2] = found.date + 1) =>
         Cardinality({i \in 1..Len(found.results) :
                        DayOf(found.results[i]) = found.date}) < found.limit
    /\ \A i \in 1..Len(found.results) :
         \A j \in 1..Len(found.results[i].flights) :
           found.results[i].flights[j].departure_date
             \in {found.date, found.date + 1}

\* C24 witness: the direct search of the requested date filled the limit, so
\* search_all ran nothing else, although pairs qualify for the connecting
\* search of that date.
C24_Witness ==
  /\ AllAnswer
  /\ found.searched = <<<<"direct", found.date>>>>
  /\ Len(found.results) = found.limit
  /\ QualifyingPairs # {}

\* Request p makes a call of a collaborator (the search, a notifier) in this
\* step; the call it makes.
CallsOut(p) == Len(loc'[p].external) > Len(loc[p].external)
CallMade(p) == loc'[p].external[Len(loc'[p].external)]

\* The cancellation cancel_flight committed is in the tables.
CancellationStands(p) ==
  /\ inst'[KeyOf(p)].present /\ inst'[KeyOf(p)].is_deleted
  /\ \A i \in loc[p].booking_ids : booking'[i].status = "cancelled_by_airline"

\* C25: a failure of either notifier call during cancel_flight never undoes
\* the committed booking transitions or the instance deletion, and shows to
\* the caller only as the alternatives_sent flag of a response that is
\* otherwise a success (at the notifier calls the handler fails for a
\* failure of the store only).
C25_NotifierFailureSwallowed ==
  [][\A p \in Procs :
       /\ ( /\ CallsOut(p)
            /\ CallMade(p).call \in {"alternatives", "cancellation"}
            /\ ~CallMade(p).ok )
            => /\ TablesUnchanged
               /\ CancellationStands(p)
               /\ pc'[p] # "failed"
       /\ (pc[p] \in {"f_send", "f_notify"} /\ pc'[p] = "failed")
            => outcome'[p].detail = "store failure"
       /\ (pc[p] = "f_notify" /\ pc'[p] = "done")
            => /\ outcome'[p].ok /\ outcome'[p].status = 200
               /\ outcome'[p].alternatives_sent =
                    (External("alternatives", TRUE)
                       \in {loc'[p].external[k] :
                              k \in 1..Len(loc'[p].external)})]_vars

\* C25 witness: a cancel_flight of an occurrence with a confirmed booking
\* has answered success with alternatives_sent false after both notifier
\* calls failed, and the booking is cancelled_by_airline.
C25_Witness ==
  \E p \in Procs :
    /\ pc[p] = "done" /\ req[p].op = "cancel_flight"
    /\ outcome[p].ok /\ ~outcome[p].alternatives_sent
    /\ loc[p].external =
         <<External("search", TRUE), External("alternatives", FALSE),
           External("cancellation", FALSE)>>
    /\ loc[p].before # {}
    /\ \A i \in loc[p].before : booking[i].status = "cancelled_by_airline"
    /\ inst[KeyOf(p)].is_deleted

\* C26: in every execution of cancel_flight the alternative search and both
\* notifier calls happen after the cancellation has been committed (the
\* request has nothing uncommitted and the tables hold the cancellation),
\* and an execution whose transaction is rolled back has made none of them.
C26_CallsAfterCommit ==
  [][\A p \in Procs :
       /\ CallsOut(p)
            => /\ wInst[p] = NoInstWrites /\ wBook[p] = NoBookWrites
               /\ inst[KeyOf(p)].present /\ inst[KeyOf(p)].is_deleted
               /\ \A i \in loc[p].booking_ids :
                    booking[i].status = "cancelled_by_airline"
       /\ (req'[p].op = "cancel_flight" /\ pc'[p] = "failed" /\ Enters(p))
            => loc'[p].external = <<>>
       /\ ( /\ pc[p] \in {"f_affected", "f_bookings", "f_instance",
                           "f_commit"}
            /\ pc'[p] = "failed" )
            => loc[p].external = <<>> /\ loc'[p].external = <<>>]_vars

\* C26 witness: a cancel_flight of an occurrence with a confirmed booking
\* has made the search and both notifier calls and answered, and another
\* cancel_flight was rolled back.
C26_Witness ==
  \E p, q \in Procs :
    /\ pc[p] = "done" /\ req[p].op = "cancel_flight"
    /\ Len(loc[p].external) = 3 /\ loc[p].before # {}
    /\ pc[q] = "failed" /\ req[q].op = "cancel_flight"

\* C27 as stated: cancel_flight(template, date) fails with "not found" and
\* changes no booking and no instance when the template is missing or
\* soft-deleted, or when the instance of the occurrence is already marked
\* deleted.
C27_CancelFlightNotFound ==
  [][\A p \in Procs :
       ( /\ Enters(p) /\ req'[p].op = "cancel_flight"
         /\ \/ req'[p].flight_id \notin Flights
            \/ flight_is_deleted[req'[p].flight_id]
            \/ /\ <<req'[p].flight_id, req'[p].date>> \in Keys
               /\ inst[<<req'[p].flight_id, req'[p].date>>].present
               /\ inst[<<req'[p].flight_id, req'[p].date>>].is_deleted )
       => /\ pc'[p] = "failed"
          /\ outcome'[p].detail = "Flight not found or already deleted"
          /\ TablesUnchanged]_vars

\* C28 as stated: cancel_flight on an active template for a date that has no
\* FlightInstance row is not refused, and its commit creates the row marked
\* deleted with available_seats = 0.
C28_CancelFlightCreatesInstance ==
  [][\A p \in Procs :
       /\ ( /\ Enters(p) /\ req'[p].op = "cancel_flight"
            /\ <<req'[p].flight_id, req'[p].date>> \in Keys
            /\ ~flight_is_deleted[req'[p].flight_id]
            /\ ~inst[<<req'[p].flight_id, req'[p].date>>].present )
            => pc'[p] # "failed"
       /\ (pc[p] = "f_commit" /\ pc'[p] = "f_alternatives")
            => inst'[KeyOf(p)] = [present |-> TRUE, available_seats |-> 0,
                                  is_deleted |-> TRUE]]_vars

\* The bookings of the occurrence a statement of request p sees confirmed.
ConfirmedSeen(p) ==
  {i \in Ids : /\ OnKey(BookRow(p, i), req[p].flight_id, req[p].date)
               /\ BookRow(p, i).status = "confirmed"}

\* C29 as stated: the affected set of cancel_flight is exactly the bookings
\* of (template, date) that are confirmed: the manifest handed to the
\* notifier holds exactly their passengers and the affected-bookings count
\* returned is their number; no booking already cancelled_by_user or
\* cancelled_by_airline is listed or counted.
C29_AffectedAreConfirmed ==
  [][\A p \in Procs :
       /\ (pc[p] = "f_affected" /\ pc'[p] = "f_bookings")
            => /\ loc'[p].booking_ids = ConfirmedSeen(p)
               /\ loc'[p].affected_passengers =
                    {ij \in Ids \X (1..MaxPassengers) :
                       /\ ij[1] \in ConfirmedSeen(p)
                       /\ ij[2] <= BookRow(p, ij[1]).passengers}
       /\ (pc[p] = "f_bookings" /\ pc'[p] = "f_instance")
            => loc'[p].rowcount = Cardinality(ConfirmedSeen(p))
       /\ (pc[p] = "f_notify" /\ pc'[p] = "done")
            => outcome'[p].affected_bookings = loc[p].rowcount]_vars

\* The alternatives of request p have been handed to the notifier.
Forwarded(p) ==
  /\ req[p].op = "cancel_flight"
  /\ \E k \in 1..Len(loc[p].external) :
       loc[p].external[k].call = "alternatives"

\* C30: the alternatives cancel_flight forwards to the notifier number at
\* most 2 and hold no itinerary any of whose legs is the cancelled template.
C30_AlternativesCappedAndFiltered ==
  \A p \in Procs :
    Forwarded(p) =>
      /\ Len(loc[p].alternatives) <= 2
      /\ \A i \in 1..Len(loc[p].alternatives) :
           \A j \in 1..Len(loc[p].alternatives[i].flights) :
             loc[p].alternatives[i].flights[j].flight_id # req[p].flight_id

\* C30 witness: cancel_flight forwarded one alternative where the search
\* for the cancelled occurrence returns an itinerary with the cancelled
\* template as a leg.
C30_Witness ==
  \E p \in Procs :
    /\ Forwarded(p)
    /\ Len(loc[p].alternatives) = 1
    /\ \E ran \in AlternativesFound(p) :
         \E i \in 1..Len(ran.results) :
           \E j \in 1..Len(ran.results[i].flights) :
             ran.results[i].flights[j].flight_id = req[p].flight_id

\* The committed Booking row i after a step differs from the row before it
\* in the status at most (its Passenger rows are the passengers field).
OnlyStatusChanged(i) ==
  booking'[i] = [booking[i] EXCEPT !.status = booking'[i].status]

\* C31: cancellations only status-transition bookings.  The step that
\* commits a cancel_flight or a cancel_bookings call deletes no Booking or
\* Passenger row and leaves every field of every Booking other than the
\* status (creation timestamp, travel date, total price, template id) and
\* every Passenger row as it was.
C31_CancellationsOnlyTransitionStatus ==
  [][\A p \in Procs :
       pc[p] \in {"f_commit", "k_commit"} =>
         \A i \in Ids : booking[i].present => OnlyStatusChanged(i)]_vars

\* C32: every committed Booking owns at least one Passenger row, and the
\* number of its Passenger rows is the number of seats debited for it, the
\* seat count its total price was computed from.
C32_PassengersMatchSeats ==
  \A i \in Ids :
    booking[i].present =>
      /\ booking[i].passengers >= 1
      /\ booking[i].passengers = SeatsOf(i)

\* C33: a search (direct, connecting or all) that names a source or a
\* destination city with no non-deleted airport, an unknown city included,
\* is answered with the "city not found" condition (404), not with an
\* empty list and not with an internal error.
C33_SearchCityNotFound ==
  (/\ found.op \in {"direct", "connecting", "all"}
   /\ \/ AirportsOfCity(found.source_city) = {}
      \/ AirportsOfCity(found.destination_city) = {})
    => found.status = 404

\* C34: searches are read-only.  A step of search_direct_flights,
\* search_connecting_flights, search_all_flights or search_internal_flight
\* leaves every Flight_Instance, Booking and Passenger row as it was,
\* committed or pending; no instance row appears for a date that had none.
C34_SearchesReadOnly ==
  [][found' # found =>
       /\ TablesUnchanged
       /\ wInst' = wInst /\ wBook' = wBook
       /\ flight_is_deleted' = flight_is_deleted]_vars

\* search_internal_flight has returned a flight of a date without an
\* instance row, and the date still has none.
C34_Witness ==
  /\ found.op = "internal"
  /\ found.status = 200
  /\ Len(found.results) = 1
  /\ ~InstanceOf(found.results[1].flight_id, found.date).present

\* C35: a connecting search reads the effective availability of both legs
\* for the nominal travel date, also when the first leg arrives a day or
\* more later (arrival_day_offset > 0): both legs of every itinerary
\* returned are of that date with, and showing, the seats of that date, and
\* a search that returned fewer itineraries than its limit returned every
\* pair that qualifies with both legs read on that date.
C35_BothLegsOnTravelDate ==
  ConnectingAnswer =>
    /\ \A i \in 1..Len(found.results) :
         \A j \in 1..2 :
           LET leg == found.results[i].flights[j]
           IN /\ leg.departure_date = found.date
              /\ leg.available_seats =
                   EffectiveAvailability(leg.flight_id, found.date)
              /\ leg.available_seats >= found.seats_required
    /\ Len(found.results) < found.limit
         => QualifyingPairs \subseteq ReturnedPairs

\* A connecting search returned an itinerary whose first leg arrives the
\* day after the travel date and whose second leg has an open instance row
\* on the travel date, and left out a pair whose first leg also arrives the
\* day after, because its second leg has no seat on the travel date.
C35_Witness ==
  /\ ConnectingAnswer
  /\ Len(found.results) < found.limit
  /\ \E i \in 1..Len(found.results) :
       LET it == found.results[i]
       IN /\ it.flights[1].arrival_date > found.date
          /\ JoinedInstance(it.flights[2].flight_id, found.date).present
  /\ \E f1, f2 \in Flights :
       /\ Flight[f1].destination_airport = Flight[f2].source_airport
       /\ Flight[f1].source_airport \in AirportsOfCity(found.source_city)
       /\ Flight[f2].destination_airport
            \in AirportsOfCity(found.destination_city)
       /\ Flight[f1].arrival_day_offset > 0
       /\ EffectiveAvailability(f1, found.date) >= found.seats_required
       /\ EffectiveAvailability(f2, found.date) < found.seats_required
       /\ <<f1, f2>> \notin ReturnedPairs

\* The step in which cancel_flight call p commits.
CancelFlightCommits(p) == pc[p] = "f_commit" /\ pc'[p] = "f_alternatives"

C37_NoConfirmedOnDeleted ==
  \A i \in Ids :
    (booking[i].present /\ booking[i].status = "confirmed")
      => ~InstanceDeleted(booking[i].flight_id, booking[i].travel_date)

\* The listed bookings on occurrence k whose status the committing call p
\* transitions.
TransitionedOn(p, k) ==
  {i \in req[p].ids : /\ OnKey(booking[i], k[1], k[2])
                      /\ ~Cancelled(booking[i].status)
                      /\ Cancelled(booking'[i].status)}

\* C38: the seats of a booking are released at most once.  The commit of a
\* cancel_bookings call adds to available_seats of an occurrence the seats
\* of the bookings whose status this call transitioned and of no other
\* booking, whatever cancel_bookings or cancel_flight call ran beside it.
C38_SeatsReleasedOnce ==
  [][\A p \in Procs :
       (pc[p] = "k_commit" /\ pc'[p] = "done") =>
         \A k \in Keys :
           inst[k].present =>
             inst'[k].available_seats =
               inst[k].available_seats
                 + SumOver(TransitionedOn(p, k),
                           [i \in Ids |-> booking[i].passengers])]_vars

\* Another cancel_flight call on the occurrence of p has committed and not
\* yet returned.
CancelledByAnother(p) ==
  \E q \in Procs \ {p} :
    /\ req[q].op = "cancel_flight" /\ KeyOf(q) = KeyOf(p)
    /\ pc[q] \in {"f_alternatives", "f_send", "f_notify", "done"}

\* C39: whenever cancel_flight surfaces an error to its caller, at whatever
\* step, none of its writes is persisted: the bookings that were confirmed
\* on the occurrence when the call began are not cancelled_by_airline, and
\* the instance is not marked deleted, unless another cancel_flight call did
\* that.
C39_FailedCancelFlightPersistsNothing ==
  [][\A p \in Procs :
       ( /\ req[p].op = "cancel_flight"
         /\ InTransaction(p)
         /\ pc'[p] = "failed"
         /\ ~CancelledByAnother(p) ) =>
           /\ \A i \in loc[p].before :
                booking'[i].status # "cancelled_by_airline"
           /\ loc[p].before # {} =>
                ~InstanceDeleted(req[p].flight_id, req[p].date)']_vars

\* What a direct search with limit 1 can return for the request in found.
DirectFirst ==
  DirectResults(get_airports_by_city_name(found.source_city),
                get_airports_by_city_name(found.destination_city),
                found.date, found.time, found.seats_required, 1)

\* C40: search_internal_flight returns the flight of the first itinerary of
\* a direct search with limit 1 on the same request, or nothing when that
\* search is empty; the flight departs at or after the requested time of
\* day, has effective availability >= the seats asked for and is never a
\* template whose instance for the date is marked deleted.
C40_InternalIsFirstDirect ==
  (found.op = "internal" /\ found.status = 200) =>
    /\ \E direct \in DirectFirst :
         /\ Len(direct) = Len(found.results)
         /\ \A i \in 1..Len(direct) :
              direct[i].flights[1].flight_id = found.results[i].flight_id
    /\ \A i \in 1..Len(found.results) :
         LET f == found.results[i].flight_id
         IN /\ Flight[f].departure_time >= found.time
            /\ EffectiveAvailability(f, found.date) >= found.seats_required
            /\ ~InstanceDeleted(f, found.date)

====
